---- MODULE Spec2Model ----
(***************************************************************************)
(* SentinelWatch: incident clustering, campaign aggregates, the k-anonymity *)
(* privacy filter and the per-organization query budget.                    *)
(*                                                                          *)
(* The record store is modelled at statement granularity: every session     *)
(* statement reads the rows committed so far (plus the session's own        *)
(* pending rows), writes become visible to other sessions at commit, and a  *)
(* commit writes only the columns whose value differs from the value the    *)
(* session loaded (the ORM's unit of work).  Times are whole days, counted  *)
(* from 5 January 2025; strings that are compared or joined character by    *)
(* character are sequences of one-character strings.                        *)
(***************************************************************************)
EXTENDS Integers, Sequences, FiniteSets, TLC

\* ------------------------------------------------------------------ bounds
MaxSubmits == 3
MaxTime == 3
MaxInitBudget == 2
MaxRequests == 3
MaxApiReads == 2
\* clock ticks per day
DayTicks == 2

FirstYear == 2024
LastYear == 2026

\* ------------------------------------------------------- program constants
WindowDays == 7
KAnonymity == 2
DEFAULT_QUERY_BUDGET == 100

\* ------------------------------------------------------------------ domains
Orgs == {"org_alice", "org_bob", "org_charlie"}

SeedProfile ==
  [o \in Orgs |->
     CASE o = "org_alice"   -> [sector |-> "health", region |-> "NA-East"]
       [] o = "org_bob"     -> [sector |-> "energy", region |-> "NA-West"]
       [] o = "org_charlie" -> [sector |-> "water",  region |-> "NA-East"]]

\* The second run of the two-run comparison: the same organizations, with
\* org_alice registered in another sector and region.
TwinProfile ==
  [SeedProfile EXCEPT !["org_alice"] = [sector |-> "finance", region |-> "EU"]]

Sessions == {"s1", "s2"}
LocalRefs == {"INC-1"}
AttackVectors == {"ai_phishing", "deepfake_voice"}
Times == {1, 8, 16}

Details ==
  { [time_end |-> 0, ai_components |-> {"llm_content"}, techniques |-> {"T1566"},
     iocs |-> <<[type |-> "domain", value |-> <<"a">>]>>,
     impact_level |-> "low", summary |-> "phish"],
    [time_end |-> 20, ai_components |-> {}, techniques |-> {},
     iocs |-> <<>>, impact_level |-> "high", summary |-> "voice"] }

\* IncidentCreate without local_ref
Payloads ==
  { [time_start |-> t, time_end |-> d.time_end, attack_vector |-> v,
     ai_components |-> d.ai_components, techniques |-> d.techniques,
     iocs |-> d.iocs, impact_level |-> d.impact_level, summary |-> d.summary]
    : t \in Times, v \in AttackVectors, d \in Details }

ContentFields ==
  {"time_start", "time_end", "attack_vector", "ai_components", "techniques",
   "iocs", "impact_level", "summary"}

NoPayload ==
  [time_start |-> 0, time_end |-> 0, attack_vector |-> "none",
   ai_components |-> {}, techniques |-> {}, iocs |-> <<>>,
   impact_level |-> "none", summary |-> ""]

\* ------------------------------------------------------------------- rows
NoIncident ==
  [id |-> 0, org_id |-> "none", local_ref |-> "none", time_start |-> 0,
   time_end |-> 0, attack_vector |-> "none", ai_components |-> {},
   techniques |-> {}, iocs |-> <<>>, impact_level |-> "none", summary |-> "",
   campaign_id |-> 0]

NoSummary == [vector |-> "none", comps |-> {}, sector |-> "none", region |-> "none"]

NoCampaign ==
  [id |-> 0, primary_attack_vector |-> "none", ai_components |-> {},
   sectors |-> {}, regions |-> {}, first_seen |-> 0, last_seen |-> 0,
   num_orgs |-> 0, num_incidents |-> 0, canonical_summary |-> NoSummary]

NoResult == [incident_id |-> 0, campaign_id |-> 0]

NoRequest == [incident_id |-> 0, org_id |-> "none"]

\* The response of the last read request (none after a later submission),
\* with the incident id and the requester of an incident-scoped request.
NoResponse ==
  [op |-> "none", status |-> 0, in_campaign |-> FALSE, campaigns |-> {},
   sample_iocs |-> <<>>, incident |-> NoIncident, request |-> NoRequest,
   heatmap |-> {}]

IdleSession ==
  [pc |-> "idle", org |-> "none", local_ref |-> "none", data |-> NoPayload,
   existing |-> 0, loaded |-> NoIncident, incident |-> NoIncident,
   campaign |-> 0, new_campaign |-> NoCampaign, snap |-> NoCampaign,
   computed |-> NoCampaign, result |-> NoResult, base |-> {}]

VARIABLES world, twin, submits, limiter, fp, api

vars == <<world, twin, submits, limiter, fp, api>>

SetMin(S) == CHOOSE x \in S : \A y \in S : x <= y
SetMax(S) == CHOOSE x \in S : \A y \in S : x >= y

\* The unit of work: a commit writes the columns whose new value differs
\* from the loaded one; the other columns keep what the store holds.
DirtyMerge(cur, loaded, new) ==
  [f \in DOMAIN new |-> IF new[f] # loaded[f] THEN new[f] ELSE cur[f]]

InitWorld(profile) ==
  [profile |-> profile,
   incidents |-> <<>>,
   campaigns |-> <<>>,
   next_incident_id |-> 1,
   next_campaign_id |-> 1,
   sess |-> [s \in Sessions |-> IdleSession],
   resp |-> NoResponse]

\* ---------------------------------------------------------- clustering.py
\* str.lower, on the characters the indicator values are made of.
LowerChar(c) == CASE c = "A" -> "a" [] c = "B" -> "b" [] OTHER -> c

Lower(v) == [i \in 1..Len(v) |-> LowerChar(v[i])]

\* The code points list.sort compares strings by.
CharCode ==
  ("," :> 44) @@ ("A" :> 65) @@ ("B" :> 66) @@ ("a" :> 97) @@ ("b" :> 98)

RECURSIVE StrLess(_, _)
StrLess(a, b) ==
  IF b = <<>> THEN FALSE
  ELSE IF a = <<>> THEN TRUE
  ELSE IF a[1] # b[1] THEN CharCode[a[1]] < CharCode[b[1]]
  ELSE StrLess(Tail(a), Tail(b))

\* ioc_values.sort() on the at most two values taken
SortValues(vs) ==
  IF Len(vs) = 2 /\ StrLess(vs[2], vs[1]) THEN <<vs[2], vs[1]>> ELSE vs

\* ",".join(ioc_values)
JoinValues(vs) ==
  IF Len(vs) = 0 THEN <<>>
  ELSE IF Len(vs) = 1 THEN vs[1]
  ELSE vs[1] \o <<",">> \o vs[2]

\* A date is a calendar year and a day of that year.
IsLeap(y) == y % 4 = 0 /\ (y % 100 # 0 \/ y % 400 = 0)

DaysBeforeYear(y) ==
  (y - 1) * 365 + (y - 1) \div 4 - (y - 1) \div 100 + (y - 1) \div 400

ToOrdinal(d) == DaysBeforeYear(d.year) + d.yday

\* The ordinal of the Monday that starts ISO week 1 of year y.
IsoWeek1Monday(y) ==
  LET firstday == DaysBeforeYear(y) + 1
      firstweekday == (firstday + 6) % 7
      week1monday == firstday - firstweekday
  IN IF firstweekday > 3 THEN week1monday + 7 ELSE week1monday

\* datetime.isocalendar(): the ISO year and the ISO week number.
isocalendar(d) ==
  LET today == ToOrdinal(d)
      week == (today - IsoWeek1Monday(d.year)) \div 7
  IN IF week < 0
     THEN [year |-> d.year - 1,
           week |-> (today - IsoWeek1Monday(d.year - 1)) \div 7 + 1]
     ELSE IF week >= 52 /\ today >= IsoWeek1Monday(d.year + 1)
     THEN [year |-> d.year + 1, week |-> 1]
     ELSE [year |-> d.year, week |-> week + 1]

\* The fingerprint is the digest of "vector|region|year-Wnn|values"; the
\* digest and the two-digit formatting keep distinct strings distinct, so a
\* fingerprint is modelled by the parts of the digested string.
compute_fingerprint(attack_vector, region, time_start, iocs) ==
  LET iso_week == <<time_start.year, isocalendar(time_start).week>>
      n == IF Len(iocs) < 2 THEN Len(iocs) ELSE 2
      ioc_values == SortValues([i \in 1..n |-> Lower(iocs[i].value)])
  IN [attack_vector |-> attack_vector, region |-> region,
      iso_week |-> iso_week, iocs_joined |-> JoinValues(ioc_values)]

\* The date of a stored time_start.
DateOf(t) == [year |-> 2025, yday |-> t + 5]

generate_canonical_summary(incident, prof) ==
  [vector |-> incident.attack_vector,
   comps  |-> IF incident.ai_components # {} THEN incident.ai_components
              ELSE {"AI components"},
   sector |-> prof.sector,
   region |-> prof.region]

\* Mutant: the window closed at the incident's own start time.
InWindow_one_sided(last_seen, time_start) ==
  /\ last_seen >= time_start - WindowDays
  /\ last_seen <= time_start

InWindow(last_seen, time_start) ==
  /\ last_seen >= time_start - WindowDays
  /\ last_seen <= time_start + WindowDays

\* Mutant: the candidate query without the attack vector filter.
Candidates_any_vector(W, incident) ==
  { c \in DOMAIN W.campaigns :
      InWindow(W.campaigns[c].last_seen, incident.time_start) }

\* The candidate query of find_or_create_campaign over the committed rows.
Candidates(W, incident) ==
  { c \in DOMAIN W.campaigns :
      /\ W.campaigns[c].primary_attack_vector = incident.attack_vector
      /\ InWindow(W.campaigns[c].last_seen, incident.time_start) }

NewCampaign(W, incident, org) ==
  [id |-> W.next_campaign_id,
   primary_attack_vector |-> incident.attack_vector,
   ai_components |-> incident.ai_components,
   sectors |-> {W.profile[org].sector},
   regions |-> {W.profile[org].region},
   first_seen |-> incident.time_start,
   last_seen |-> incident.time_start,
   num_orgs |-> 1,
   num_incidents |-> 1,
   canonical_summary |-> generate_canonical_summary(incident, W.profile[org])]

Members(W, cid) == { i \in DOMAIN W.incidents : W.incidents[i].campaign_id = cid }

\* Mutant: organizations counted once per incident.
Aggregates_counts_rows(W, row, members) ==
  [row EXCEPT
     !.num_orgs = Cardinality(members),
     !.num_incidents = Cardinality(members),
     !.ai_components = UNION { W.incidents[i].ai_components : i \in members },
     !.sectors = { W.profile[W.incidents[i].org_id].sector : i \in members },
     !.regions = { W.profile[W.incidents[i].org_id].region : i \in members },
     !.first_seen = SetMin({ W.incidents[i].time_start : i \in members }),
     !.last_seen = SetMax({ W.incidents[i].time_start : i \in members })]

\* The values update_campaign_aggregates computes from a member set.
Aggregates(W, row, members) ==
  [row EXCEPT
     !.num_orgs = Cardinality({ W.incidents[i].org_id : i \in members }),
     !.num_incidents = Cardinality(members),
     !.ai_components = UNION { W.incidents[i].ai_components : i \in members },
     !.sectors = { W.profile[W.incidents[i].org_id].sector : i \in members },
     !.regions = { W.profile[W.incidents[i].org_id].region : i \in members },
     !.first_seen = SetMin({ W.incidents[i].time_start : i \in members }),
     !.last_seen = SetMax({ W.incidents[i].time_start : i \in members })]

\* ----------------------------------------------------------- campaigns.py
\* Mutant: the suppression threshold off by one.
apply_privacy_rules_off_by_one(campaign) ==
  [id |-> campaign.id,
   primary_attack_vector |-> campaign.primary_attack_vector,
   ai_components |-> campaign.ai_components,
   num_orgs |-> campaign.num_orgs,
   num_incidents |-> campaign.num_incidents,
   first_seen |-> campaign.first_seen,
   last_seen |-> campaign.last_seen,
   canonical_summary |-> campaign.canonical_summary,
   sectors |-> IF campaign.num_orgs < 1 THEN {} ELSE campaign.sectors,
   regions |-> IF campaign.num_orgs < 1 THEN {} ELSE campaign.regions]

apply_privacy_rules(campaign) ==
  [id |-> campaign.id,
   primary_attack_vector |-> campaign.primary_attack_vector,
   ai_components |-> campaign.ai_components,
   num_orgs |-> campaign.num_orgs,
   num_incidents |-> campaign.num_incidents,
   first_seen |-> campaign.first_seen,
   last_seen |-> campaign.last_seen,
   canonical_summary |-> campaign.canonical_summary,
   sectors |-> IF campaign.num_orgs < KAnonymity THEN {} ELSE campaign.sectors,
   regions |-> IF campaign.num_orgs < KAnonymity THEN {} ELSE campaign.regions]

\* CampaignFilters: "none" / 0 stand for an absent filter; the sector and
\* region filters are accepted and ignored.
NoFilters == [attack_vector |-> "none", since |-> 0, until |-> 0]

Filters ==
  { NoFilters,
    [NoFilters EXCEPT !.attack_vector = "ai_phishing"],
    [NoFilters EXCEPT !.since = 8],
    [NoFilters EXCEPT !.until = 8] }

RListCampaigns(W, f) ==
  LET hits == { c \in DOMAIN W.campaigns :
                  /\ f.attack_vector # "none" =>
                        W.campaigns[c].primary_attack_vector = f.attack_vector
                  /\ f.since # 0 => W.campaigns[c].last_seen >= f.since
                  /\ f.until # 0 => W.campaigns[c].first_seen <= f.until }
  IN [W EXCEPT !.resp =
        [NoResponse EXCEPT !.op = "list_campaigns", !.status = 200,
           !.campaigns = { apply_privacy_rules(W.campaigns[c]) : c \in hits }]]

\* `ioc not in sample_iocs` compares a stored dict with IOC model objects,
\* which never compare equal to a dict.
IocIn(ioc, sample_iocs) == FALSE

RECURSIVE SampleIocs(_, _, _, _)
\* The loop over incidents (in the order the query returned them), one
\* indicator per incident, stopping at three samples.
SampleIocs(W, order, k, acc) ==
  IF k > Len(order) \/ Len(acc) >= 3 THEN acc
  ELSE LET iocs == W.incidents[order[k]].iocs
           acc2 == IF Len(iocs) > 0 /\ ~IocIn(iocs[1], acc)
                   THEN Append(acc, iocs[1]) ELSE acc
       IN SampleIocs(W, order, k + 1, acc2)

\* The results `.limit(3).all()` can return: up to three members, in any order.
LimitedScans(W, cid) ==
  LET m == Members(W, cid)
      n == IF Cardinality(m) < 3 THEN Cardinality(m) ELSE 3
  IN { o \in [1..n -> m] : \A i, j \in 1..n : i # j => o[i] # o[j] }

RGetCampaignDetail(W, cid, order) ==
  IF cid \notin DOMAIN W.campaigns
  THEN [W EXCEPT !.resp =
          [NoResponse EXCEPT !.op = "get_campaign_detail", !.status = 404]]
  ELSE [W EXCEPT !.resp =
          [NoResponse EXCEPT !.op = "get_campaign_detail", !.status = 200,
             !.campaigns = { apply_privacy_rules(W.campaigns[cid]) },
             !.sample_iocs = SampleIocs(W, order, 1, <<>>)]]

\* Mutant: a campaign of a single organization is reported as no campaign.
RGetAmIAlone_single_is_alone(W, incident_id, org_id) ==
  LET r == [NoResponse EXCEPT !.op = "get_am_i_alone",
              !.request = [incident_id |-> incident_id, org_id |-> org_id]] IN
  IF incident_id \notin DOMAIN W.incidents
  THEN [W EXCEPT !.resp = [r EXCEPT !.status = 404]]
  ELSE IF W.incidents[incident_id].org_id # org_id
  THEN [W EXCEPT !.resp = [r EXCEPT !.status = 403]]
  ELSE IF W.incidents[incident_id].campaign_id = 0
  THEN [W EXCEPT !.resp = [r EXCEPT !.status = 200]]
  ELSE IF W.incidents[incident_id].campaign_id \notin DOMAIN W.campaigns
  THEN [W EXCEPT !.resp = [r EXCEPT !.status = 200]]
  ELSE IF W.campaigns[W.incidents[incident_id].campaign_id].num_orgs < KAnonymity
  THEN [W EXCEPT !.resp = [r EXCEPT !.status = 200]]
  ELSE [W EXCEPT !.resp =
          [r EXCEPT !.status = 200, !.in_campaign = TRUE,
             !.campaigns =
                { apply_privacy_rules(
                     W.campaigns[W.incidents[incident_id].campaign_id]) }]]

RGetAmIAlone(W, incident_id, org_id) ==
  LET r == [NoResponse EXCEPT !.op = "get_am_i_alone",
              !.request = [incident_id |-> incident_id, org_id |-> org_id]] IN
  IF incident_id \notin DOMAIN W.incidents
  THEN [W EXCEPT !.resp = [r EXCEPT !.status = 404]]
  ELSE IF W.incidents[incident_id].org_id # org_id
  THEN [W EXCEPT !.resp = [r EXCEPT !.status = 403]]
  ELSE IF W.incidents[incident_id].campaign_id = 0
  THEN [W EXCEPT !.resp = [r EXCEPT !.status = 200]]
  ELSE IF W.incidents[incident_id].campaign_id \notin DOMAIN W.campaigns
  THEN [W EXCEPT !.resp = [r EXCEPT !.status = 200]]
  ELSE [W EXCEPT !.resp =
          [r EXCEPT !.status = 200, !.in_campaign = TRUE,
             !.campaigns =
                { apply_privacy_rules(
                     W.campaigns[W.incidents[incident_id].campaign_id]) }]]

\* ----------------------------------------------------------- analytics.py
\* The cells of get_sector_heatmap: for every campaign, one cell per sector
\* of its member incidents' organizations, with the number of such
\* incidents.  campaign records which campaign the cell was built from.
RGetSectorHeatmap(W) ==
  LET sectors(c) == { W.profile[W.incidents[i].org_id].sector : i \in Members(W, c) }
      cells == { [campaign |-> c, sector |-> x,
                  attack_vector |-> W.campaigns[c].primary_attack_vector,
                  count |-> Cardinality({ i \in Members(W, c) :
                               W.profile[W.incidents[i].org_id].sector = x })] :
                 c \in DOMAIN W.campaigns, x \in { W.profile[o].sector : o \in Orgs } }
  IN [W EXCEPT !.resp =
        [NoResponse EXCEPT !.op = "get_sector_heatmap", !.status = 200,
           !.heatmap = { cell \in cells : cell.sector \in sectors(cell.campaign) }]]

\* ----------------------------------------------------------- incidents.py
\* Mutant: the incident is returned without the ownership test.
RGetIncident_any_org(W, incident_id, org_id) ==
  LET r == [NoResponse EXCEPT !.op = "get_incident",
              !.request = [incident_id |-> incident_id, org_id |-> org_id]] IN
  IF incident_id \notin DOMAIN W.incidents
  THEN [W EXCEPT !.resp = [r EXCEPT !.status = 404]]
  ELSE [W EXCEPT !.resp =
          [r EXCEPT !.status = 200, !.incident = W.incidents[incident_id]]]

RGetIncident(W, incident_id, org_id) ==
  LET r == [NoResponse EXCEPT !.op = "get_incident",
              !.request = [incident_id |-> incident_id, org_id |-> org_id]] IN
  IF incident_id \notin DOMAIN W.incidents
  THEN [W EXCEPT !.resp = [r EXCEPT !.status = 404]]
  ELSE IF W.incidents[incident_id].org_id # org_id
  THEN [W EXCEPT !.resp = [r EXCEPT !.status = 403]]
  ELSE [W EXCEPT !.resp =
          [r EXCEPT !.status = 200, !.incident = W.incidents[incident_id]]]

\* ------------------------------------------- steps of one submission
\* Each step is one statement (or one commit) of create_or_update_incident
\* run by session s on store W; it returns the store after the step.

Resting(W, s) == W.sess[s].pc \in {"idle", "done", "error"}

\* History: the campaigns that exist when the request starts and that no
\* running submission is working on.
SettledCampaigns(W) ==
  { c \in DOMAIN W.campaigns :
      \A t \in Sessions : Resting(W, t) \/ W.sess[t].campaign # c }

SBegin(W, s, org, ref, p) ==
  [W EXCEPT !.resp = NoResponse, !.sess[s] =
     [IdleSession EXCEPT !.pc = "lookup", !.org = org, !.local_ref = ref,
                         !.data = p, !.base = SettledCampaigns(W)]]

SLookup(W, s) ==
  LET ses == W.sess[s]
      hits == { i \in DOMAIN W.incidents :
                  /\ W.incidents[i].org_id = ses.org
                  /\ W.incidents[i].local_ref = ses.local_ref }
      ex == IF hits = {} THEN 0 ELSE CHOOSE i \in hits : TRUE
  IN [W EXCEPT !.sess[s].pc = "flush",
               !.sess[s].existing = ex,
               !.sess[s].loaded = IF ex = 0 THEN NoIncident ELSE W.incidents[ex]]

\* Mutant: an update that forgets the summary.
WithContent_keeps_summary(row, p) ==
  [row EXCEPT !.time_start = p.time_start, !.time_end = p.time_end,
              !.attack_vector = p.attack_vector,
              !.ai_components = p.ai_components, !.techniques = p.techniques,
              !.iocs = p.iocs, !.impact_level = p.impact_level]

WithContent(row, p) ==
  [row EXCEPT !.time_start = p.time_start, !.time_end = p.time_end,
              !.attack_vector = p.attack_vector,
              !.ai_components = p.ai_components, !.techniques = p.techniques,
              !.iocs = p.iocs, !.impact_level = p.impact_level,
              !.summary = p.summary]

KeyTaken(W, org, ref) ==
  \E i \in DOMAIN W.incidents :
     W.incidents[i].org_id = org /\ W.incidents[i].local_ref = ref

\* A flushed, uncommitted write of another session on the same
\* (org_id, local_ref) holds the row (or the unique index entry).
RowLocked(W, s) ==
  \E t \in Sessions \ {s} :
     /\ W.sess[t].pc \in {"match", "commit"}
     /\ W.sess[t].org = W.sess[s].org
     /\ W.sess[t].local_ref = W.sess[s].local_ref

SFlush(W, s) ==
  LET ses == W.sess[s] IN
  IF ses.existing # 0
  THEN [W EXCEPT !.sess[s].pc = "match",
                 !.sess[s].incident = WithContent(ses.loaded, ses.data)]
  ELSE IF KeyTaken(W, ses.org, ses.local_ref)
  THEN \* uq_org_local_ref: IntegrityError, the request fails
       [W EXCEPT !.sess[s].pc = "error",
                 !.next_incident_id = @ + 1]
  ELSE [W EXCEPT !.sess[s].pc = "match",
                 !.next_incident_id = @ + 1,
                 !.sess[s].incident =
                    WithContent([NoIncident EXCEPT !.id = W.next_incident_id,
                                                   !.org_id = ses.org,
                                                   !.local_ref = ses.local_ref],
                                ses.data)]

\* c is the candidate the scan returns first, 0 when there is none.
SMatch(W, s, c) ==
  LET ses == W.sess[s] IN
  IF c # 0
  THEN [W EXCEPT !.sess[s].pc = "commit",
                 !.sess[s].campaign = c,
                 !.sess[s].incident.campaign_id = c]
  ELSE [W EXCEPT !.sess[s].pc = "commit",
                 !.sess[s].campaign = W.next_campaign_id,
                 !.sess[s].incident.campaign_id = W.next_campaign_id,
                 !.sess[s].new_campaign = NewCampaign(W, ses.incident, ses.org),
                 !.next_campaign_id = @ + 1]

SCommit(W, s) ==
  LET ses == W.sess[s]
      camps == IF ses.new_campaign.id # 0
               THEN W.campaigns @@ (ses.new_campaign.id :> ses.new_campaign)
               ELSE W.campaigns
      incs == IF ses.existing # 0
              THEN [W.incidents EXCEPT ![ses.existing] =
                       DirtyMerge(@, ses.loaded, ses.incident)]
              ELSE W.incidents @@ (ses.incident.id :> ses.incident)
  IN [W EXCEPT !.campaigns = camps, !.incidents = incs,
               !.sess[s].pc = "agg_load"]

SAggLoad(W, s) ==
  LET cid == W.sess[s].campaign IN
  IF cid \notin DOMAIN W.campaigns
  THEN [W EXCEPT !.sess[s].pc = "refresh"]
  ELSE [W EXCEPT !.sess[s].pc = "agg_scan", !.sess[s].snap = W.campaigns[cid]]

\* Mutant: a campaign without members is written back with empty aggregates.
SAggScan_writes_empty(W, s) ==
  LET ses == W.sess[s]
      members == Members(W, ses.campaign)
  IN IF members = {}
     THEN [W EXCEPT !.sess[s].pc = "agg_write",
                    !.sess[s].computed =
                       [ses.snap EXCEPT !.num_orgs = 0, !.num_incidents = 0,
                                        !.ai_components = {}, !.sectors = {},
                                        !.regions = {}]]
     ELSE [W EXCEPT !.sess[s].pc = "agg_write",
                    !.sess[s].computed = Aggregates(W, ses.snap, members)]

SAggScan(W, s) ==
  LET ses == W.sess[s]
      members == Members(W, ses.campaign)
  IN IF members = {}
     THEN [W EXCEPT !.sess[s].pc = "refresh"]
     ELSE [W EXCEPT !.sess[s].pc = "agg_write",
                    !.sess[s].computed = Aggregates(W, ses.snap, members)]

SAggWrite(W, s) ==
  LET ses == W.sess[s] IN
  [W EXCEPT !.campaigns[ses.campaign] = DirtyMerge(@, ses.snap, ses.computed),
            !.sess[s].pc = "refresh"]

SRefresh(W, s) ==
  LET ses == W.sess[s]
      id == ses.incident.id
  IN [W EXCEPT !.sess[s].pc = "done",
               !.sess[s].loaded = NoIncident,
               !.sess[s].snap = NoCampaign,
               !.sess[s].computed = NoCampaign,
               !.sess[s].new_campaign = NoCampaign,
               !.sess[s].incident = W.incidents[id],
               !.sess[s].result = [incident_id |-> id,
                                   campaign_id |-> W.incidents[id].campaign_id]]

\* --------------------------------------------------------- query_budget.py
\* The budget row of one organization, the clock, and the privileged
\* requests of that organization.  org is the request's ORM object: the
\* values it loaded, reloaded on the first access after a commit of its
\* session.  units and window_budget are history: the units granted since
\* the last reset, the budget that reset (or the start) left, and the
\* number of requests so far.  cost is the number of calls the endpoint
\* makes, calls_left the calls not yet allowed.
IdleRequest ==
  [pc |-> "idle", org |-> [query_budget |-> 0, budget_reset_at |-> 0],
   expired |-> FALSE, now |-> 0, cost |-> 0, calls_left |-> 0,
   outcome |-> "none", seen_budget |-> 0, seen_reset_at |-> 0]

InitLimiter(b) ==
  [query_budget |-> b,
   budget_reset_at |-> DayTicks,
   now |-> 0,
   units |-> 0,
   window_budget |-> b,
   requests |-> 0,
   req |-> [s \in Sessions |-> IdleRequest]]

Stored(L) == [query_budget |-> L.query_budget, budget_reset_at |-> L.budget_reset_at]

\* The ORM object as the next attribute access sees it.
Fresh(L, s) == IF L.req[s].expired THEN Stored(L) ELSE L.req[s].org

\* get_current_org loads the organization; the endpoint then calls
\* check_and_decrement_budget `cost` times.
LBegin(L, s, cost) ==
  [L EXCEPT !.requests = @ + 1, !.req[s] =
     [IdleRequest EXCEPT !.pc = "start", !.org = Stored(L), !.cost = cost,
                         !.calls_left = cost]]

\* Mutant: the reset test taken strictly.
LCallStart_strict(L, s) ==
  LET org == Fresh(L, s) IN
  [L EXCEPT !.req[s].org = org,
            !.req[s].expired = FALSE,
            !.req[s].now = L.now,
            !.req[s].seen_budget = L.query_budget,
            !.req[s].seen_reset_at = L.budget_reset_at,
            !.req[s].pc = IF L.now > org.budget_reset_at THEN "reset"
                          ELSE "evaluate"]

\* now = utcnow(); if now >= org.budget_reset_at
LCallStart(L, s) ==
  LET org == Fresh(L, s) IN
  [L EXCEPT !.req[s].org = org,
            !.req[s].expired = FALSE,
            !.req[s].now = L.now,
            !.req[s].seen_budget = L.query_budget,
            !.req[s].seen_reset_at = L.budget_reset_at,
            !.req[s].pc = IF L.now >= org.budget_reset_at THEN "reset"
                          ELSE "evaluate"]

\* org.query_budget = DEFAULT_QUERY_BUDGET; org.budget_reset_at = now + 1 day;
\* db.commit()
LReset(L, s) ==
  LET r == L.req[s]
      new == [query_budget |-> DEFAULT_QUERY_BUDGET,
              budget_reset_at |-> r.now + DayTicks]
      row == DirtyMerge(Stored(L), r.org, new)
  IN [L EXCEPT !.query_budget = row.query_budget,
               !.budget_reset_at = row.budget_reset_at,
               !.units = 0,
               !.window_budget = row.query_budget,
               !.req[s].expired = TRUE,
               !.req[s].pc = "evaluate"]

\* Mutant: a rejected call is charged all the same.
LEvaluate_charges_rejected(L, s) ==
  LET org == Fresh(L, s) IN
  IF org.query_budget <= 0
  THEN [L EXCEPT !.query_budget = org.query_budget - 1,
                 !.req[s].org = org, !.req[s].expired = FALSE,
                 !.req[s].pc = "done", !.req[s].outcome = "rejected"]
  ELSE [L EXCEPT !.req[s].org = org, !.req[s].expired = FALSE,
                 !.req[s].pc = "decrement"]

\* Mutant: the exhaustion test off by one.
LEvaluate_off_by_one(L, s) ==
  LET org == Fresh(L, s) IN
  IF org.query_budget < 0
  THEN [L EXCEPT !.req[s].org = org, !.req[s].expired = FALSE,
                 !.req[s].pc = "done", !.req[s].outcome = "rejected"]
  ELSE [L EXCEPT !.req[s].org = org, !.req[s].expired = FALSE,
                 !.req[s].pc = "decrement"]

\* if org.query_budget <= 0: raise HTTPException(429)
LEvaluate(L, s) ==
  LET org == Fresh(L, s) IN
  IF org.query_budget <= 0
  THEN [L EXCEPT !.req[s].org = org, !.req[s].expired = FALSE,
                 !.req[s].pc = "done", !.req[s].outcome = "rejected"]
  ELSE [L EXCEPT !.req[s].org = org, !.req[s].expired = FALSE,
                 !.req[s].pc = "decrement"]

\* Mutant: the decrement applied to the stored value.
LDecrement_in_store(L, s) ==
  LET r == L.req[s]
      left == r.calls_left - 1
  IN [L EXCEPT !.query_budget = L.query_budget - 1,
               !.units = @ + 1,
               !.req[s].expired = TRUE,
               !.req[s].calls_left = left,
               !.req[s].pc = IF left = 0 THEN "done" ELSE "start",
               !.req[s].outcome = IF left = 0 THEN "allowed" ELSE "none"]

\* org.query_budget -= 1; db.commit()
LDecrement(L, s) ==
  LET r == L.req[s]
      left == r.calls_left - 1
  IN [L EXCEPT !.query_budget = r.org.query_budget - 1,
               !.units = @ + 1,
               !.req[s].expired = TRUE,
               !.req[s].calls_left = left,
               !.req[s].pc = IF left = 0 THEN "done" ELSE "start",
               !.req[s].outcome = IF left = 0 THEN "allowed" ELSE "none"]

\* ---------------------------------------------------------------- actions


create_incident(s, inputs) ==
  /\ Resting(world, s)
  /\ submits < MaxSubmits
  /\ \E org \in Orgs, ref \in LocalRefs, p \in inputs :
        /\ world' = SBegin(world, s, org, ref, p)
        /\ twin' = SBegin(twin, s, org, ref, p)
  /\ submits' = submits + 1
  /\ UNCHANGED <<limiter, fp, api>>

Lookup(s) ==
  /\ world.sess[s].pc = "lookup"
  /\ world' = SLookup(world, s)
  /\ twin' = SLookup(twin, s)
  /\ UNCHANGED <<submits, limiter, fp, api>>

Flush(s) ==
  /\ world.sess[s].pc = "flush"
  /\ ~RowLocked(world, s)
  /\ world' = SFlush(world, s)
  /\ twin' = SFlush(twin, s)
  /\ UNCHANGED <<submits, limiter, fp, api>>

find_or_create_campaign(s) ==
  /\ world.sess[s].pc = "match"
  /\ LET cands == Candidates(world, world.sess[s].incident) IN
     \E c \in (IF cands = {} THEN {0} ELSE cands) :
        /\ world' = SMatch(world, s, c)
        /\ twin' = SMatch(twin, s, c)
  /\ UNCHANGED <<submits, limiter, fp, api>>

Commit(s) ==
  /\ world.sess[s].pc = "commit"
  /\ world' = SCommit(world, s)
  /\ twin' = SCommit(twin, s)
  /\ UNCHANGED <<submits, limiter, fp, api>>

AggLoad(s) ==
  /\ world.sess[s].pc = "agg_load"
  /\ world' = SAggLoad(world, s)
  /\ twin' = SAggLoad(twin, s)
  /\ UNCHANGED <<submits, limiter, fp, api>>

AggScan(s) ==
  /\ world.sess[s].pc = "agg_scan"
  /\ world' = SAggScan(world, s)
  /\ twin' = SAggScan(twin, s)
  /\ UNCHANGED <<submits, limiter, fp, api>>

AggWrite(s) ==
  /\ world.sess[s].pc = "agg_write"
  /\ world' = SAggWrite(world, s)
  /\ twin' = SAggWrite(twin, s)
  /\ UNCHANGED <<submits, limiter, fp, api>>

Refresh(s) ==
  /\ world.sess[s].pc = "refresh"
  /\ world' = SRefresh(world, s)
  /\ twin' = SRefresh(twin, s)
  /\ UNCHANGED <<submits, limiter, fp, api>>

Step(s) ==
  \/ Lookup(s) \/ Flush(s) \/ find_or_create_campaign(s) \/ Commit(s)
  \/ AggLoad(s) \/ AggScan(s) \/ AggWrite(s) \/ Refresh(s)

\* ------------------------------------------------ fingerprint inputs
\* Two calls of compute_fingerprint, on inputs a and b.
NoFingerprint ==
  [attack_vector |-> "none", region |-> "none", iso_week |-> <<0, 0>>,
   iocs_joined |-> <<>>]

NoFpInput ==
  [attack_vector |-> "none", region |-> "none",
   time_start |-> [year |-> 0, yday |-> 0], iocs |-> <<>>]

IdleFingerprint ==
  [pc |-> "idle", a |-> NoFpInput, b |-> NoFpInput,
   fa |-> NoFingerprint, fb |-> NoFingerprint]

\* Days around the turn of the year: 1, 2, 5 and 6 January, 29 and 31
\* December (30 and 31 December in a leap year).
FpDates ==
  { d \in [year : FirstYear..LastYear, yday : {1, 2, 5, 6, 363, 364, 365, 366}] :
      d.yday <= (IF IsLeap(d.year) THEN 366 ELSE 365) }

FpIndicators ==
  { [type |-> "domain", value |-> <<"a">>], [type |-> "domain", value |-> <<"A">>],
    [type |-> "ip", value |-> <<"a">>], [type |-> "domain", value |-> <<"b">>],
    [type |-> "url", value |-> <<"a", ",", "b">>], [type |-> "domain", value |-> <<>>] }

\* Indicator lists of up to three entries.
FpIocs ==
  {<<>>} \cup { <<x>> : x \in FpIndicators }
         \cup { <<x, y>> : x, y \in FpIndicators }
         \cup { <<x, y, z>> : x, y \in FpIndicators,
                              z \in { [type |-> "ip", value |-> <<"a">>],
                                      [type |-> "domain", value |-> <<"b">>] } }

\* Inputs that vary the indicators and the region within one ISO week, and
\* inputs that vary the date.
FpInputs ==
  { [attack_vector |-> "ai_phishing", region |-> r, time_start |-> d, iocs |-> l] :
      r \in {"NA-East", "NA-West"},
      d \in {[year |-> FirstYear, yday |-> 365], [year |-> FirstYear + 1, yday |-> 2]},
      l \in FpIocs }
  \cup
  { [attack_vector |-> "ai_phishing", region |-> "NA-East", time_start |-> d,
     iocs |-> <<[type |-> "domain", value |-> <<"a">>]>>] : d \in FpDates }

\* The router's position in the request it is serving, and the audit log.
IdleApi ==
  [pc |-> "idle", op |-> "none", incident_id |-> 0, campaign_id |-> 0,
   status |-> 0, fetched |-> FALSE, budget_before |-> 0,
   reads |-> 0, logged |-> 0, audit |-> <<>>]

InitStore ==
  /\ world = InitWorld(SeedProfile)
  /\ twin = InitWorld(TwinProfile)
  /\ submits = 0
  /\ fp = IdleFingerprint
  /\ api = IdleApi

Init ==
  /\ InitStore
  /\ limiter = InitLimiter(DEFAULT_QUERY_BUDGET)

\* Concurrent submissions: any session may start while others are running.
\* Their payloads share one attack vector and one start time, so that they
\* compete for the same campaigns.
ConcPayloads ==
  { p \in Payloads : p.time_start = 8 /\ p.attack_vector = "ai_phishing" }

Next == \E s \in Sessions : create_incident(s, ConcPayloads) \/ Step(s)

Spec == Init /\ [][Next]_vars

\* Sequential submissions: every request runs to completion, in one session
\* slot, before the next one starts.
SeqSession == "s1"

create_incident_seq ==
  /\ \A t \in Sessions : Resting(world, t)
  /\ create_incident(SeqSession, Payloads)

\* Read requests, served between submissions.  Reads leave the store as it
\* is, so one read is observed per pause between submissions.
Quiet ==
  /\ \A t \in Sessions : Resting(world, t)
  /\ world.resp.op = "none"

list_campaigns ==
  /\ Quiet
  /\ \E f \in Filters :
        /\ world' = RListCampaigns(world, f)
        /\ twin' = RListCampaigns(twin, f)
  /\ UNCHANGED <<submits, limiter, fp, api>>

get_campaign_detail ==
  /\ Quiet
  /\ \E cid \in DOMAIN world.campaigns \cup {world.next_campaign_id} :
     \E order \in (IF cid \in DOMAIN world.campaigns
                   THEN LimitedScans(world, cid) ELSE {<<>>}) :
        /\ world' = RGetCampaignDetail(world, cid, order)
        /\ twin' = RGetCampaignDetail(twin, cid, order)
  /\ UNCHANGED <<submits, limiter, fp, api>>

get_am_i_alone ==
  /\ Quiet
  /\ \E i \in DOMAIN world.incidents \cup {world.next_incident_id}, o \in Orgs :
        /\ world' = RGetAmIAlone(world, i, o)
        /\ twin' = RGetAmIAlone(twin, i, o)
  /\ UNCHANGED <<submits, limiter, fp, api>>

get_incident ==
  /\ Quiet
  /\ \E i \in DOMAIN world.incidents \cup {world.next_incident_id}, o \in Orgs :
        /\ world' = RGetIncident(world, i, o)
        /\ twin' = RGetIncident(twin, i, o)
  /\ UNCHANGED <<submits, limiter, fp, api>>

NextSeq ==
  \/ create_incident_seq \/ Step(SeqSession)
  \/ list_campaigns \/ get_campaign_detail \/ get_am_i_alone \/ get_incident

SpecSeq == Init /\ [][NextSeq]_vars

\* Sequential submissions of one attack vector under two local references:
\* start times on two days of one ISO week (6 and 8 January 2025), on a day
\* within the window of the second only (14 January) and on a day outside
\* every window (22 January).
ClusterRefs == {"INC-1", "INC-2"}

ClusterTimes == {1, 3, 9, 17}

ClusterPayloads ==
  { [time_start |-> t, time_end |-> d.time_end, attack_vector |-> "ai_phishing",
     ai_components |-> d.ai_components, techniques |-> d.techniques,
     iocs |-> d.iocs, impact_level |-> d.impact_level, summary |-> d.summary]
    : t \in ClusterTimes, d \in Details }

create_incident_cluster ==
  /\ \A t \in Sessions : Resting(world, t)
  /\ submits < MaxSubmits
  /\ \E org \in Orgs, ref \in ClusterRefs, p \in ClusterPayloads :
        /\ world' = SBegin(world, SeqSession, org, ref, p)
        /\ twin' = SBegin(twin, SeqSession, org, ref, p)
  /\ submits' = submits + 1
  /\ UNCHANGED <<limiter, fp, api>>

get_sector_heatmap ==
  /\ Quiet
  /\ world' = RGetSectorHeatmap(world)
  /\ twin' = RGetSectorHeatmap(twin)
  /\ UNCHANGED <<submits, limiter, fp, api>>

NextCluster ==
  create_incident_cluster \/ Step(SeqSession) \/ get_sector_heatmap

SpecCluster == Init /\ [][NextCluster]_vars

\* A call of update_campaign_aggregates on its own, for any campaign id, in
\* a session that holds nothing else; the session keeps the id it was
\* called with.
update_campaign_aggregates(W, s, c) ==
  LET W0 == [W EXCEPT !.sess[s] =
               [IdleSession EXCEPT !.pc = "agg_load", !.campaign = c]]
      W1 == SAggLoad(W0, s)
      W2 == IF W1.sess[s].pc = "agg_scan" THEN SAggScan(W1, s) ELSE W1
      W3 == IF W2.sess[s].pc = "agg_write" THEN SAggWrite(W2, s) ELSE W2
  IN [W3 EXCEPT !.sess[s] = [IdleSession EXCEPT !.campaign = c]]

recompute ==
  /\ world.sess[SeqSession].pc = "done"
  /\ \E c \in DOMAIN world.campaigns \cup {world.next_campaign_id} :
        /\ world' = update_campaign_aggregates(world, SeqSession, c)
        /\ twin' = update_campaign_aggregates(twin, SeqSession, c)
  /\ UNCHANGED <<submits, limiter, fp, api>>

NextRecompute == create_incident_cluster \/ Step(SeqSession) \/ recompute

SpecRecompute == Init /\ [][NextRecompute]_vars

\* ------------------------------------------------ fingerprint actions
InitFingerprint ==
  /\ world = InitWorld(SeedProfile)
  /\ twin = InitWorld(TwinProfile)
  /\ submits = 0
  /\ limiter = InitLimiter(DEFAULT_QUERY_BUDGET)
  /\ api = IdleApi
  /\ \E a, b \in FpInputs :
        fp = [IdleFingerprint EXCEPT !.pc = "input", !.a = a, !.b = b]

fingerprint_pair ==
  /\ fp.pc = "input"
  /\ fp' = [fp EXCEPT
              !.pc = "done",
              !.fa = compute_fingerprint(fp.a.attack_vector, fp.a.region,
                                         fp.a.time_start, fp.a.iocs),
              !.fb = compute_fingerprint(fp.b.attack_vector, fp.b.region,
                                         fp.b.time_start, fp.b.iocs)]
  /\ UNCHANGED <<world, twin, submits, limiter, api>>

NextFingerprint == fingerprint_pair

SpecFingerprint == InitFingerprint /\ [][NextFingerprint]_vars

\* --------------------------------------------------- limiter actions
StoreIdle == UNCHANGED <<world, twin, submits, fp, api>>

\* A privileged request: a read endpoint (1 unit) or the threat-research
\* scan (2 units).
privileged_request(s) ==
  /\ limiter.req[s].pc \in {"idle", "done"}
  /\ limiter.requests < MaxRequests
  /\ \E cost \in {1, 2} : limiter' = LBegin(limiter, s, cost)
  /\ StoreIdle

CallStart(s) ==
  /\ limiter.req[s].pc = "start"
  /\ limiter' = LCallStart(limiter, s)
  /\ StoreIdle

Reset(s) ==
  /\ limiter.req[s].pc = "reset"
  /\ limiter' = LReset(limiter, s)
  /\ StoreIdle

Evaluate(s) ==
  /\ limiter.req[s].pc = "evaluate"
  /\ limiter' = LEvaluate(limiter, s)
  /\ StoreIdle

Decrement(s) ==
  /\ limiter.req[s].pc = "decrement"
  /\ limiter' = LDecrement(limiter, s)
  /\ StoreIdle

Tick ==
  /\ limiter.now < MaxTime
  /\ limiter' = [limiter EXCEPT !.now = @ + 1]
  /\ StoreIdle

check_and_decrement_budget(s) ==
  CallStart(s) \/ Reset(s) \/ Evaluate(s) \/ Decrement(s)

InitBudget ==
  /\ InitStore
  /\ \E b \in (0..MaxInitBudget) \cup {DEFAULT_QUERY_BUDGET} :
        limiter = InitLimiter(b)

\* Concurrent privileged requests of one organization.
NextBudget ==
  \/ \E s \in Sessions :
        \/ privileged_request(s)
        \/ check_and_decrement_budget(s)
  \/ Tick

SpecBudget == InitBudget /\ [][NextBudget]_vars

\* Sequential privileged requests.
privileged_request_seq ==
  /\ \A t \in Sessions : limiter.req[t].pc \in {"idle", "done"}
  /\ privileged_request(SeqSession)

NextBudgetSeq ==
  \/ privileged_request_seq
  \/ check_and_decrement_budget(SeqSession)
  \/ Tick

SpecBudgetSeq == InitBudget /\ [][NextBudgetSeq]_vars

\* ------------------------------------------------------- router actions
\* The endpoints of routers/incidents.py and routers/campaigns.py, one
\* request at a time: budget check, data fetch, log_action.  The reads are
\* those of one organization, whose budget row is the limiter's.
ApiOrg == "org_alice"

BudgetedReads == {"list_campaigns", "get_campaign", "am_i_alone"}

ApiReads == BudgetedReads \cup {"get_incident_by_id"}

ApiPayloads ==
  { p \in ClusterPayloads : p.time_start = 1 /\ p.time_end = 0 }

\* log_action: one more row in the audit table.
log_action(A, org_id, action) ==
  [A EXCEPT !.audit = Append(@, [org_id |-> org_id, action |-> action])]

ApiIdle ==
  /\ \A t \in Sessions : Resting(world, t)
  /\ limiter.req[SeqSession].pc \in {"idle", "done"}
  /\ api.pc \in {"idle", "done"}
  /\ api.logged = submits

\* POST /incidents: create_or_update_incident, then log_action.
api_create_incident ==
  /\ ApiIdle
  /\ create_incident(SeqSession, ApiPayloads)

api_log_submit ==
  /\ world.sess[SeqSession].pc = "done"
  /\ api.logged < submits
  /\ api' = [log_action(api, world.sess[SeqSession].org, "submit_incident")
               EXCEPT !.logged = @ + 1]
  /\ UNCHANGED <<world, twin, submits, limiter, fp>>

\* A read request arrives.  Three endpoints start with the budget check;
\* get_incident_by_id has none.
ApiBegin(A, op, i, c, budget) ==
  [A EXCEPT !.pc = IF op \in BudgetedReads THEN "budget" ELSE "fetch",
            !.op = op, !.incident_id = i, !.campaign_id = c,
            !.status = 0, !.fetched = FALSE, !.budget_before = budget,
            !.reads = @ + 1]

api_read ==
  /\ ApiIdle
  /\ api.reads < MaxApiReads
  /\ \E op \in ApiReads,
        i \in DOMAIN world.incidents \cup {world.next_incident_id},
        c \in DOMAIN world.campaigns \cup {world.next_campaign_id} :
        /\ api' = ApiBegin(api, op,
                           IF op \in {"am_i_alone", "get_incident_by_id"}
                           THEN i ELSE 0,
                           IF op = "get_campaign" THEN c ELSE 0,
                           limiter.query_budget)
        /\ limiter' = IF op \in BudgetedReads
                      THEN LBegin(limiter, SeqSession, 1) ELSE limiter
  /\ world' = [world EXCEPT !.resp = NoResponse]
  /\ twin' = [twin EXCEPT !.resp = NoResponse]
  /\ UNCHANGED <<submits, fp>>

\* Mutant: the rejection of the budget check is swallowed.
ApiBudgetChecked_ignores_rejection(A, outcome) ==
  [A EXCEPT !.pc = "fetch"]

\* check_and_decrement_budget has returned or raised HTTP 429.
ApiBudgetChecked(A, outcome) ==
  IF outcome = "rejected"
  THEN [A EXCEPT !.pc = "done", !.status = 429]
  ELSE [A EXCEPT !.pc = "fetch"]

api_budget_checked ==
  /\ api.pc = "budget"
  /\ limiter.req[SeqSession].pc = "done"
  /\ api' = ApiBudgetChecked(api, limiter.req[SeqSession].outcome)
  /\ UNCHANGED <<world, twin, submits, limiter, fp>>

\* The service call of the endpoint; an HTTPException leaves the router.
ApiFetch(W, A, order) ==
  CASE A.op = "list_campaigns" -> RListCampaigns(W, NoFilters)
    [] A.op = "get_campaign" -> RGetCampaignDetail(W, A.campaign_id, order)
    [] A.op = "am_i_alone" -> RGetAmIAlone(W, A.incident_id, ApiOrg)
    [] A.op = "get_incident_by_id" -> RGetIncident(W, A.incident_id, ApiOrg)

ApiFetched(A, status) ==
  [A EXCEPT !.fetched = TRUE, !.status = status,
            !.pc = IF status = 200 /\ A.op \in BudgetedReads
                   THEN "log" ELSE "done"]

api_fetch ==
  /\ api.pc = "fetch"
  /\ \E order \in (IF api.op = "get_campaign"
                       /\ api.campaign_id \in DOMAIN world.campaigns
                    THEN LimitedScans(world, api.campaign_id) ELSE {<<>>}) :
        /\ world' = ApiFetch(world, api, order)
        /\ twin' = ApiFetch(twin, api, order)
  /\ api' = ApiFetched(api, world'.resp.status)
  /\ UNCHANGED <<submits, limiter, fp>>

api_log ==
  /\ api.pc = "log"
  /\ api' = [log_action(api, ApiOrg, api.op) EXCEPT !.pc = "done"]
  /\ UNCHANGED <<world, twin, submits, limiter, fp>>

NextApi ==
  \/ api_create_incident \/ Step(SeqSession) \/ api_log_submit
  \/ api_read \/ check_and_decrement_budget(SeqSession)
  \/ api_budget_checked \/ api_fetch \/ api_log
  \/ Tick

SpecApi == InitBudget /\ [][NextApi]_vars

\* ------------------------------------------------------------------ claims
AggregateFields ==
  {"num_incidents", "num_orgs", "ai_components", "sectors", "regions",
   "first_seen", "last_seen"}

\* The stored aggregates of campaign c equal the values derived from its
\* current member incidents, on the given fields.
Derived(W, c, fields) ==
  LET m == Members(W, c) IN
  /\ m # {}
  /\ \A f \in fields : W.campaigns[c][f] = Aggregates(W, W.campaigns[c], m)[f]

\* Two submissions, one per session, from distinct organizations of one
\* region with the same content, both completed.
SameClusterPair ==
  /\ submits = 2
  /\ \A s \in Sessions : world.sess[s].pc = "done"
  /\ world.sess["s1"].org # world.sess["s2"].org
  /\ world.profile[world.sess["s1"].org].region
       = world.profile[world.sess["s2"].org].region
  /\ world.sess["s1"].data = world.sess["s2"].data

\* C1: N concurrent submissions from N distinct organizations matching the
\* same vector, region, week and indicators end in exactly one campaign,
\* referenced by all N incidents, with num_orgs = N and num_incidents = N
\* (here N = 2).
C1_OneCampaignPerCluster ==
  SameClusterPair =>
    /\ Cardinality(DOMAIN world.campaigns) = 1
    /\ \A i \in DOMAIN world.incidents, c \in DOMAIN world.campaigns :
          /\ world.incidents[i].campaign_id = c
          /\ world.campaigns[c].num_orgs = 2
          /\ world.campaigns[c].num_incidents = 2

\* Both sessions completed a submission that joined the same campaign, one
\* that existed and was at rest before either of them started.
JoinedSameExisting(c) ==
  \A s \in Sessions :
     /\ world.sess[s].pc = "done"
     /\ world.sess[s].campaign = c
     /\ c \in world.sess[s].base

\* C7: once concurrent submissions joining one existing campaign have all
\* completed, the campaign's stored num_incidents, num_orgs, sectors,
\* regions, first_seen and last_seen are those of its full membership.
C7_NoStaleRecompute ==
  \A c \in DOMAIN world.campaigns :
     JoinedSameExisting(c) =>
        Derived(world, c, AggregateFields \ {"ai_components"})

RowsOf(W, org, ref) ==
  { i \in DOMAIN W.incidents :
      W.incidents[i].org_id = org /\ W.incidents[i].local_ref = ref }

C9_State ==
  /\ \A o \in Orgs, r \in LocalRefs : Cardinality(RowsOf(world, o, r)) <= 1
  /\ \A s \in Sessions : world.sess[s].pc # "error"

\* The commit of a submission leaves the row with that submission's content.
C9_Step ==
  \A s \in Sessions :
     (world.sess[s].pc = "commit" /\ world'.sess[s].pc = "agg_load") =>
        \A i \in RowsOf(world', world.sess[s].org, world.sess[s].local_ref) :
           \A f \in ContentFields : world'.incidents[i][f] = world.sess[s].data[f]

\* C9: two concurrent submissions of one (org_id, local_ref) never make two
\* rows, both complete without an error, and the row ends with the content
\* of the one that committed last.
C9_AtomicUpsert == [](C9_State) /\ [][C9_Step]_vars
MemberOrgs(W, c) == { W.incidents[i].org_id : i \in Members(W, c) }

\* C3: in every response of list_campaigns, get_campaign_detail and
\* get_am_i_alone, a campaign whose current member incidents come from fewer
\* than 2 distinct organizations is shown with empty sectors and regions.
C3_SmallCampaignsSuppressed ==
  \A v \in world.resp.campaigns :
     Cardinality(MemberOrgs(world, v.id)) < 2 =>
        v.sectors = {} /\ v.regions = {}

\* The organization whose sector and region differ between the two runs.
SecretOrg == CHOOSE o \in Orgs : SeedProfile[o] # TwinProfile[o]

\* C4: for two runs that differ only in the sector/region of the lone
\* submitting organization, the privacy-filtered view of a campaign whose
\* members all belong to that organization is the same in both runs.
C4_ViewIndependentOfProfile ==
  \A c \in DOMAIN world.campaigns :
     MemberOrgs(world, c) = {SecretOrg} =>
        /\ c \in DOMAIN twin.campaigns
        /\ apply_privacy_rules(world.campaigns[c])
             = apply_privacy_rules(twin.campaigns[c])

DisclosableFields ==
  {"id", "primary_attack_vector", "ai_components", "num_orgs", "num_incidents",
   "first_seen", "last_seen", "canonical_summary"}

\* C5: every view a read returns has sectors = regions = {} when the stored
\* num_orgs is below 2, the stored sectors and regions otherwise, and the
\* other eight fields exactly as stored.
C5_PrivacyRules ==
  \A v \in world.resp.campaigns :
     LET c == world.campaigns[v.id] IN
     /\ c.num_orgs < 2 => v.sectors = {} /\ v.regions = {}
     /\ c.num_orgs >= 2 => v.sectors = c.sectors /\ v.regions = c.regions
     /\ \A f \in DisclosableFields : v[f] = c[f]

C5_Witness ==
  /\ \E v \in world.resp.campaigns :
        /\ v.num_orgs < 2
        /\ world.campaigns[v.id].sectors # {}
        /\ v.sectors = {}
  /\ \E v \in world.resp.campaigns : v.num_orgs >= 2 /\ v.sectors # {}

\* C6: after every completed submission of a sequential history every
\* campaign has members and its stored aggregates are the ones derived from
\* them.
C6_AggregatesDerived ==
  (\A s \in Sessions : Resting(world, s)) =>
     \A c \in DOMAIN world.campaigns : Derived(world, c, AggregateFields)

\* C8: a sequential resubmission of an (org_id, local_ref) leaves one row
\* for the pair, under the id it had, with the content of the resubmission,
\* in a campaign of the resubmitted attack vector whose time span covers
\* the resubmitted start time.
C8_IdempotentUpsert ==
  \A s \in Sessions :
     LET ses == world.sess[s] IN
     (ses.pc \in {"refresh", "done"} /\ ses.existing # 0) =>
        /\ RowsOf(world, ses.org, ses.local_ref) = {ses.existing}
        /\ \A f \in ContentFields :
              world.incidents[ses.existing][f] = ses.data[f]
        /\ world.incidents[ses.existing].campaign_id = ses.campaign
        /\ ses.campaign \in DOMAIN world.campaigns
        /\ world.campaigns[ses.campaign].primary_attack_vector
             = ses.data.attack_vector
        /\ world.campaigns[ses.campaign].first_seen <= ses.data.time_start
        /\ world.campaigns[ses.campaign].last_seen >= ses.data.time_start

\* A resubmission that changed every content field and moved the incident
\* to another campaign.
C8_Witness ==
  \E s \in Sessions :
     LET ses == world.sess[s] IN
     /\ ses.pc = "refresh"
     /\ ses.existing # 0
     /\ \A f \in ContentFields : ses.loaded[f] # ses.data[f]
     /\ ses.loaded.campaign_id # ses.campaign
     /\ world.incidents[ses.existing].campaign_id = ses.campaign
\* C2: the units granted within one reset window never exceed the budget
\* the window started with; with a budget of 1, two concurrent requests are
\* not both allowed.
C2_NoOverspend == limiter.units <= limiter.window_budget

\* C10: sequential calls before reset_at are allowed exactly while the budget
\* is positive and each allowed call lowers it by 1, so that B calls pass and
\* call B+1 is rejected; a call at or after reset_at starts from the default
\* quota.
C10_BudgetMonotone ==
  LET r == limiter.req[SeqSession] IN
  /\ limiter.units + limiter.query_budget = limiter.window_budget
  /\ (r.pc = "done" /\ r.now < r.seen_reset_at) =>
        /\ r.outcome = "allowed" <=> r.seen_budget > 0
        /\ limiter.query_budget
             = IF r.seen_budget > 0 THEN r.seen_budget - 1 ELSE r.seen_budget
  /\ (r.pc = "done" /\ r.now >= r.seen_reset_at) =>
        /\ r.outcome = "allowed"
        /\ limiter.query_budget = DEFAULT_QUERY_BUDGET - 1
        /\ limiter.window_budget = DEFAULT_QUERY_BUDGET

\* The budget was used up call by call and the next call was rejected.
C10_Witness ==
  LET r == limiter.req[SeqSession] IN
  /\ r.pc = "done"
  /\ r.outcome = "rejected"
  /\ limiter.window_budget > 0
  /\ limiter.units = limiter.window_budget

\* A call after reset_at found the budget at 0 and was allowed.
C10_WitnessReset ==
  LET r == limiter.req[SeqSession] IN
  /\ r.pc = "done"
  /\ r.now >= r.seen_reset_at
  /\ r.seen_budget = 0
  /\ r.outcome = "allowed"

\* A call of check_and_decrement_budget has returned or raised: the request
\* is over, or the scan stands between its two calls.
Returned(r) == r.pc = "done" \/ (r.pc = "start" /\ r.expired)

CallAllowed(r) == r.pc = "start" \/ r.outcome = "allowed"

\* C11: a call at a time now >= reset_at is allowed whatever the budget was,
\* and leaves budget = 99 and reset_at = now + one day; a call with
\* now < reset_at leaves reset_at as it was.
C11_ResetOnExpiry ==
  LET r == limiter.req[SeqSession] IN
  /\ (Returned(r) /\ r.now >= r.seen_reset_at) =>
        /\ CallAllowed(r)
        /\ limiter.query_budget = DEFAULT_QUERY_BUDGET - 1
        /\ limiter.budget_reset_at = r.now + DayTicks
  /\ (Returned(r) /\ r.now < r.seen_reset_at) =>
        limiter.budget_reset_at = r.seen_reset_at

\* A call exactly at reset_at found an exhausted budget, was allowed and
\* moved reset_at one day on.
C11_Witness ==
  LET r == limiter.req[SeqSession] IN
  /\ Returned(r)
  /\ r.now = r.seen_reset_at
  /\ r.seen_budget <= 0
  /\ CallAllowed(r)
  /\ limiter.budget_reset_at = r.now + DayTicks

\* C12: a call with budget <= 0 and now < reset_at is rejected with
\* QuotaExceeded and leaves budget and reset_at exactly as they were.
C12_RejectedCallIsFree ==
  LET r == limiter.req[SeqSession] IN
  (Returned(r) /\ r.seen_budget <= 0 /\ r.now < r.seen_reset_at) =>
     /\ r.pc = "done"
     /\ r.outcome = "rejected"
     /\ limiter.query_budget = r.seen_budget
     /\ limiter.budget_reset_at = r.seen_reset_at

\* A single-call request met an exhausted budget before reset_at and was
\* rejected.
C12_Witness ==
  LET r == limiter.req[SeqSession] IN
  /\ r.pc = "done"
  /\ r.cost = 1
  /\ r.seen_budget <= 0
  /\ r.now < r.seen_reset_at
  /\ r.outcome = "rejected"
  /\ limiter.query_budget = 0

\* C13: a scan (2 units) either is allowed and has consumed exactly 2 units,
\* or is rejected and has consumed none; with a budget of 1 it is rejected
\* and the budget stays 1.
C13_ScanReservesAtomically ==
  LET r == limiter.req[SeqSession] IN
  (r.pc = "done" /\ r.cost = 2) =>
     \/ r.outcome = "allowed" /\ r.cost - r.calls_left = 2
     \/ r.outcome = "rejected" /\ r.cost - r.calls_left = 0

\* The key the fingerprint is meant to be a function of: attack vector,
\* region, ISO week and the sorted lowercased first two indicator values.
FpKey(x) ==
  LET n == IF Len(x.iocs) < 2 THEN Len(x.iocs) ELSE 2 IN
  [attack_vector |-> x.attack_vector, region |-> x.region,
   iso_week |-> isocalendar(x.time_start),
   values |-> SortValues([i \in 1..n |-> Lower(x.iocs[i].value)])]

\* C18: inputs with the same attack vector, region, ISO week and sorted
\* lowercased first two indicator values get the same fingerprint, whatever
\* the order and case of the first two indicators, the indicator types and
\* the indicators after the second.
C18_FingerprintInvariance ==
  (fp.pc = "done" /\ FpKey(fp.a) = FpKey(fp.b)) => fp.fa = fp.fb

\* What stays of C18 within one start time: the indicator invariances.
IndicatorInvariance ==
  (fp.pc = "done" /\ FpKey(fp.a) = FpKey(fp.b)
     /\ fp.a.time_start = fp.b.time_start) => fp.fa = fp.fb

\* C19: two start times get the same time bucket exactly when they lie in the
\* same ISO week (same ISO year and ISO week number).
C19_IsoWeekBucket ==
  fp.pc = "done" =>
     (fp.fa.iso_week = fp.fb.iso_week
        <=> isocalendar(fp.a.time_start) = isocalendar(fp.b.time_start))

\* The fingerprint find_or_create_campaign computes for an incident.
IncidentFingerprint(W, inc) ==
  compute_fingerprint(inc.attack_vector, W.profile[inc.org_id].region,
                      DateOf(inc.time_start), inc.iocs)

\* C14: find_or_create_campaign returns an existing campaign only if the
\* incident's fingerprint equals that of a current member of the campaign,
\* and creates a campaign only if no candidate has such a member; so
\* incidents of different regions, or with different first two indicator
\* values, do not come to share a campaign.
C14_FingerprintMatch ==
  LET ses == world.sess[SeqSession]
      like(c) == { i \in Members(world, c) :
                     IncidentFingerprint(world, world.incidents[i])
                       = IncidentFingerprint(world, ses.incident) }
  IN ses.pc = "commit" =>
        IF ses.new_campaign.id = 0
        THEN like(ses.campaign) # {}
        ELSE \A c \in Candidates(world, ses.incident) : like(c) = {}

\* Every row was submitted once: the ids give the order of the submissions.
NoResubmission ==
  /\ Resting(world, SeqSession)
  /\ Cardinality(DOMAIN world.incidents) = submits

MembersBefore(c, k) == { m \in Members(world, c) : m < k }

\* Campaign c was a candidate for inc before submission k.
CompatibleBefore(c, inc, k) ==
  /\ world.campaigns[c].primary_attack_vector = inc.attack_vector
  /\ MembersBefore(c, k) # {}
  /\ InWindow(SetMax({ world.incidents[m].time_start : m \in MembersBefore(c, k) }),
              inc.time_start)

\* Submissions i1 and i1 + 1 come from distinct organizations of one region
\* with the same attack vector, ISO week and indicator, and no campaign was
\* compatible with either before the first.
ClusterPair(i1, i2) ==
  LET a == world.incidents[i1]
      b == world.incidents[i2]
  IN /\ i2 = i1 + 1
     /\ a.org_id # b.org_id
     /\ world.profile[a.org_id].region = world.profile[b.org_id].region
     /\ a.attack_vector = b.attack_vector
     /\ isocalendar(DateOf(a.time_start)) = isocalendar(DateOf(b.time_start))
     /\ a.iocs # <<>>
     /\ a.iocs = b.iocs
     /\ \A c \in DOMAIN world.campaigns :
           ~CompatibleBefore(c, a, i1) /\ ~CompatibleBefore(c, b, i1)

\* C15: of two such sequential submissions the first creates a campaign, the
\* second joins it, and after the second the campaign has num_orgs = 2,
\* num_incidents = 2 and its filtered view discloses both sectors.
C15_SequentialPairClusters ==
  NoResubmission =>
    \A i1, i2 \in DOMAIN world.incidents :
      ClusterPair(i1, i2) =>
        LET a == world.incidents[i1]
            b == world.incidents[i2]
        IN /\ a.campaign_id \in DOMAIN world.campaigns
           /\ MembersBefore(a.campaign_id, i1) = {}
           /\ b.campaign_id = a.campaign_id
           /\ i2 = submits =>
                 LET row == world.campaigns[a.campaign_id] IN
                 /\ row.num_orgs = 2
                 /\ row.num_incidents = 2
                 /\ apply_privacy_rules(row).sectors
                      = { world.profile[a.org_id].sector,
                          world.profile[b.org_id].sector }

\* The second and third submissions form such a pair, on different days of
\* the week, after a first submission outside their window.
C15_Witness ==
  /\ NoResubmission
  /\ submits = 3
  /\ ClusterPair(2, 3)
  /\ world.incidents[2].time_start # world.incidents[3].time_start
  /\ world.incidents[2].campaign_id = world.incidents[3].campaign_id
  /\ world.campaigns[world.incidents[3].campaign_id].num_orgs = 2

\* C16: for a campaign with members, update_campaign_aggregates leaves
\* num_incidents = number of members, num_orgs = number of distinct org_id,
\* ai_components = union of the members' components, sectors and regions =
\* those of the members' organizations, first_seen and last_seen = least
\* and greatest member time_start, whatever was stored before.
C16_AggregatesFromMembers ==
  LET ses == world.sess[SeqSession]
      c == ses.campaign
      m == Members(world, c)
      row == world.campaigns[c]
      starts == { world.incidents[i].time_start : i \in m }
      orgs == { world.incidents[i].org_id : i \in m }
  IN (ses.pc = "refresh" /\ c \in DOMAIN world.campaigns /\ m # {}) =>
        /\ row.num_incidents = Cardinality(m)
        /\ row.num_orgs = Cardinality(orgs)
        /\ \A x \in row.ai_components :
              \E i \in m : x \in world.incidents[i].ai_components
        /\ \A i \in m : world.incidents[i].ai_components \subseteq row.ai_components
        /\ row.sectors = { world.profile[o].sector : o \in orgs }
        /\ row.regions = { world.profile[o].region : o \in orgs }
        /\ row.first_seen \in starts
        /\ \A t \in starts : row.first_seen <= t /\ t <= row.last_seen
        /\ row.last_seen \in starts

\* A recompute replaced stored values: the campaign now holds two incidents
\* of one organization and a third of another.
C16_Witness ==
  LET ses == world.sess[SeqSession]
      m == Members(world, ses.campaign)
  IN /\ ses.pc = "refresh"
     /\ ses.campaign \in DOMAIN world.campaigns
     /\ ses.snap.id = ses.campaign
     /\ Cardinality(m) = 3
     /\ world.campaigns[ses.campaign].num_orgs = 2
     /\ ses.snap.num_incidents # world.campaigns[ses.campaign].num_incidents
     /\ ses.snap.first_seen # world.campaigns[ses.campaign].first_seen

\* C17: get_am_i_alone and get_incident answer 404 for an incident id that
\* does not exist and 403, with no incident or campaign data, for an
\* incident of another organization; only the owner gets a result.
C17_OwnerOnly ==
  LET r == world.resp
      i == r.request.incident_id
      nodata == r.campaigns = {} /\ r.incident = NoIncident /\ ~r.in_campaign
  IN r.op \in {"get_am_i_alone", "get_incident"} =>
        /\ i \notin DOMAIN world.incidents => r.status = 404 /\ nodata
        /\ (i \in DOMAIN world.incidents
              /\ world.incidents[i].org_id # r.request.org_id) =>
                 r.status = 403 /\ nodata
        /\ r.status = 200 =>
              /\ i \in DOMAIN world.incidents
              /\ world.incidents[i].org_id = r.request.org_id
        /\ r.incident # NoIncident => r.incident.org_id = r.request.org_id

\* Another organization asked for an existing incident and was refused.
C17_Witness ==
  /\ world.resp.op = "get_incident"
  /\ world.resp.request.incident_id \in DOMAIN world.incidents
  /\ world.incidents[world.resp.request.incident_id].org_id
       # world.resp.request.org_id
  /\ world.resp.status = 403

\* C20: get_campaign_detail returns at most 3 sample indicators, each the
\* first indicator of a different member incident, and no two of them with
\* the same (type, value).
C20_SampleIocsDistinct ==
  LET r == world.resp
      n == Len(r.sample_iocs)
  IN (r.op = "get_campaign_detail" /\ r.status = 200) =>
        /\ n <= 3
        /\ \A v \in r.campaigns :
              /\ n <= Cardinality(Members(world, v.id))
              /\ \A k \in 1..n : \E m \in Members(world, v.id) :
                    /\ world.incidents[m].iocs # <<>>
                    /\ world.incidents[m].iocs[1] = r.sample_iocs[k]
        /\ \A j, k \in 1..n : j # k => r.sample_iocs[j] # r.sample_iocs[k]

\* C22: in every committed state, the campaign an incident references
\* accounts for that incident in num_incidents, num_orgs, sectors, regions,
\* first_seen and last_seen: membership and aggregates change together.
C22_MembershipWithAggregates ==
  \A i \in DOMAIN world.incidents :
     LET inc == world.incidents[i]
         c == inc.campaign_id
         row == world.campaigns[c]
         m == Members(world, c)
     IN /\ c \in DOMAIN world.campaigns
        /\ row.num_incidents >= Cardinality(m)
        /\ row.num_orgs >= Cardinality({ world.incidents[j].org_id : j \in m })
        /\ world.profile[inc.org_id].sector \in row.sectors
        /\ world.profile[inc.org_id].region \in row.regions
        /\ row.first_seen <= inc.time_start
        /\ inc.time_start <= row.last_seen

\* C23: when several campaigns qualify, find_or_create_campaign returns the
\* one with the most recent last_seen.
C23_MostRecentCandidate ==
  LET ses == world.sess[SeqSession] IN
  (ses.pc = "commit" /\ ses.new_campaign.id = 0) =>
     \A c \in Candidates(world, ses.incident) :
        world.campaigns[c].last_seen <= world.campaigns[ses.campaign].last_seen

\* C24: a campaign returned by find_or_create_campaign has the incident's
\* attack vector and a last_seen within 7 days (inclusive) of its
\* time_start; so every stored incident's campaign has the incident's
\* current attack vector.
C24_MatchWithinVectorAndWindow ==
  LET ses == world.sess[SeqSession] IN
  /\ (ses.pc = "commit" /\ ses.new_campaign.id = 0) =>
        LET row == world.campaigns[ses.campaign] IN
        /\ row.primary_attack_vector = ses.incident.attack_vector
        /\ row.last_seen - ses.incident.time_start <= 7
        /\ ses.incident.time_start - row.last_seen <= 7
  /\ \A i \in DOMAIN world.incidents :
        /\ world.incidents[i].campaign_id \in DOMAIN world.campaigns
        /\ world.campaigns[world.incidents[i].campaign_id].primary_attack_vector
             = world.incidents[i].attack_vector

\* A resubmission under another attack vector, seven days later, joined an
\* existing campaign of that vector.
C24_Witness ==
  LET ses == world.sess[SeqSession] IN
  /\ ses.pc = "commit"
  /\ ses.new_campaign.id = 0
  /\ ses.existing # 0
  /\ ses.loaded.attack_vector # ses.incident.attack_vector
  /\ ses.incident.time_start - world.campaigns[ses.campaign].last_seen = 7

\* C25: update_campaign_aggregates called for a campaign id that does not
\* exist, or for a campaign without member incidents, returns normally and
\* changes no stored campaign, incident or organization.
C25_RecomputeNoOp ==
  [][ (world.sess[SeqSession].pc = "done" /\ world'.sess[SeqSession].pc = "idle") =>
        LET c == world'.sess[SeqSession].campaign IN
        (c \notin DOMAIN world.campaigns \/ Members(world, c) = {}) =>
           /\ world'.campaigns = world.campaigns
           /\ world'.incidents = world.incidents
           /\ world'.profile = world.profile
           /\ limiter' = limiter ]_vars

\* The call returned for a campaign that all its members had left, and the
\* campaign still holds the counts it had.
C25_Witness ==
  LET ses == world.sess[SeqSession] IN
  /\ ses.pc = "idle"
  /\ ses.campaign \in DOMAIN world.campaigns
  /\ Members(world, ses.campaign) = {}
  /\ world.campaigns[ses.campaign].num_incidents >= 1

\* C26: two calls return the same fingerprint only if they have the same
\* attack vector, region, week bucket and sorted list of lowercased first
\* two indicator values: a value with a comma does not collide with two
\* values, nor no indicator with one empty value.
C26_FingerprintInjective ==
  (fp.pc = "done" /\ fp.fa = fp.fb) =>
     /\ fp.a.attack_vector = fp.b.attack_vector
     /\ fp.a.region = fp.b.region
     /\ FpKey(fp.a).values = FpKey(fp.b).values

\* C27: get_sector_heatmap returns no (sector, attack_vector, count) cell
\* built from a campaign whose member incidents come from fewer than 2
\* distinct organizations.
C27_HeatmapKAnonymous ==
  world.resp.op = "get_sector_heatmap" =>
     \A cell \in world.resp.heatmap :
        Cardinality(MemberOrgs(world, cell.campaign)) >= KAnonymity

\* C28: from a budget within 0..100, every state reached by concurrent
\* check_and_decrement_budget calls (one-unit reads, two-unit scans) and
\* clock advances has 0 <= query_budget <= 100.
C28_BudgetInRange ==
  /\ 0 <= limiter.query_budget
  /\ limiter.query_budget <= DEFAULT_QUERY_BUDGET

\* Two concurrent requests were both allowed from a budget of 1 and left 0.
C28_Witness ==
  /\ limiter.window_budget = 1
  /\ limiter.units = 2
  /\ limiter.query_budget = 0
  /\ \A s \in Sessions : limiter.req[s].outcome = "allowed"

\* C29: a completed submission returns a campaign_id that refers to an
\* existing campaign of which the incident is a member; get_am_i_alone by the
\* owner of an incident answers in_campaign = true with the filtered summary
\* of that campaign, also when no other organization contributes to it.
C29_AlwaysInCampaign ==
  LET ses == world.sess[SeqSession]
      r == world.resp
  IN /\ ses.pc = "done" =>
           /\ ses.result.campaign_id \in DOMAIN world.campaigns
           /\ ses.result.incident_id \in Members(world, ses.result.campaign_id)
     /\ (r.op = "get_am_i_alone" /\ r.status = 200) =>
           /\ r.in_campaign
           /\ \E v \in r.campaigns :
                 /\ r.campaigns = {v}
                 /\ v.id = world.incidents[r.request.incident_id].campaign_id

\* The owner asked about its incident in a campaign of its own and got the
\* campaign, sectors withheld.
C29_Witness ==
  LET r == world.resp IN
  /\ r.op = "get_am_i_alone"
  /\ r.status = 200
  /\ r.in_campaign
  /\ \E v \in r.campaigns :
        /\ Cardinality(MemberOrgs(world, v.id)) = 1
        /\ v.num_orgs = 1
        /\ v.sectors = {}
\* C21: every core operation (submission, campaign list, campaign detail,
\* am-i-alone, incident lookup by id), whether it succeeds or fails with
\* NotFound, Forbidden or QuotaExceeded, appends an audit record naming the
\* action and the acting organization: between requests the log holds one
\* record per operation served, and the record of the last read is there.
C21_EveryOperationAudited ==
  ApiIdle =>
    /\ Len(api.audit) = submits + api.reads
    /\ api.pc = "done" =>
          \E k \in 1..Len(api.audit) :
             api.audit[k] = [org_id |-> ApiOrg, action |-> api.op]

\* The second half of C21: the audit log only grows at its end.
C21_AppendOnly ==
  [][/\ Len(api.audit') >= Len(api.audit)
     /\ SubSeq(api.audit', 1, Len(api.audit)) = api.audit]_vars

\* The budget the check of the request in service started from: the default
\* quota when it found the reset time passed, else the budget before the
\* request.
BudgetBase ==
  LET r == limiter.req[SeqSession] IN
  IF r.now >= r.seen_reset_at THEN DEFAULT_QUERY_BUDGET ELSE api.budget_before

\* C30 as stated: on the list, detail and am-i-alone paths the unit is
\* consumed before the fetch and never refunded; a request rejected with 429
\* fetches nothing and returns no data; a request that passes the check and
\* then fails with 404 or 403 leaves the budget exactly one lower than it
\* was before the request.
C30_OneLowerThanBefore ==
  api.op \in BudgetedReads =>
    /\ (api.pc = "fetch" \/ api.fetched) =>
          limiter.req[SeqSession].outcome = "allowed"
    /\ (api.pc = "done" /\ api.status = 429) =>
          ~api.fetched /\ world.resp = NoResponse
    /\ (api.pc = "done" /\ api.status \in {403, 404}) =>
          limiter.query_budget = api.budget_before - 1

\* C30, amended: for requests served one at a time, the unit is consumed
\* before the fetch and never refunded; a request rejected with 429 fetches
\* nothing, returns no data and leaves the budget as it was; a request that
\* passes the check leaves the budget, whether it then succeeds or fails
\* with 404 or 403, one lower than before the request, or at
\* DEFAULT_QUERY_BUDGET - 1 when its check found the reset time passed.
C30_ConsumedBeforeFetch ==
  api.op \in BudgetedReads =>
    /\ (api.pc = "fetch" \/ api.fetched) =>
          /\ limiter.req[SeqSession].outcome = "allowed"
          /\ limiter.query_budget = BudgetBase - 1
    /\ (api.pc = "done" /\ api.status = 429) =>
          /\ ~api.fetched /\ world.resp = NoResponse
          /\ limiter.query_budget = api.budget_before
    /\ (api.pc = "done" /\ api.status \in {403, 404}) =>
          /\ api.fetched
          /\ limiter.query_budget = BudgetBase - 1

\* A request passed the check with the last unit and was then refused as
\* Forbidden: the unit is gone.
C30_Witness ==
  /\ api.pc = "done" /\ api.op = "am_i_alone" /\ api.status = 403
  /\ api.budget_before = 1
  /\ limiter.query_budget = 0
  /\ world.resp.status = 403

\* A request was rejected by the budget check: nothing fetched.
C30_WitnessRejected ==
  /\ api.pc = "done" /\ api.op = "get_campaign" /\ api.status = 429
  /\ ~api.fetched
  /\ DOMAIN world.campaigns # {}
====
